---------------------------- MODULE Spec2Model ----------------------------
(***************************************************************************)
(* Translation bot: the per-requester job state machine of bot/handlers.py *)
(* (intake, confirm, cancel, the _run_translation task) and the bounded    *)
(* fan-out of bot/translator.py (translate_markdown and its _process       *)
(* tasks: semaphore, lock, done counter, results buffer).                  *)
(*                                                                         *)
(* Scheduling is asyncio's: one thread, a coroutine runs from one await to *)
(* the next without interruption.  Every action below is one such run of   *)
(* one coroutine.  Consecutive awaits of a coroutine between which it      *)
(* touches no shared state are taken as one await (so an await that raises *)
(* and the message of the except clause that follows it are one step).     *)
(*                                                                         *)
(* Job ids are uuid4().hex[:8] in the source; the model hands out fresh    *)
(* ids 1, 2, ... (no collisions).                                          *)
(*                                                                         *)
(* What a handler answers is an operator of the state it runs in           *)
(* (confirm_reply, cancel_reply), not a variable.                          *)
(*                                                                         *)
(* The specifications share every action and differ in what the users      *)
(* upload, own and buy and in what the translation backend answers (env,   *)
(* fixed by Init): Spec has MaxJobs uploads of two-chunk documents         *)
(* (several jobs side by side), SpecBatch one upload of an NChunks-chunk   *)
(* document (one batch in full), SpecIntake one upload out of documents of *)
(* every type, size and page count up to MaxPages.                         *)
(* SpecFair is one upload of an NChunks-chunk document with the fairness   *)
(* of the event loop.                                                      *)
(*                                                                         *)
(* SpecText has no job: it puts one text (a sequence of characters) and    *)
(* one chunk size through the pure functions of bot/translator.py          *)
(* (_protect_images, _restore_images, split_into_chunks) and through       *)
(* translate_markdown with the chunks returning in any order.              *)
(***************************************************************************)
EXTENDS Integers, Sequences, FiniteSets, TLC

\* ------------------------------------------------------------- bounds
\* Intakes that get as far as creating a job directory.
MaxJobs == 2
\* Chunks split_into_chunks returns for an uploaded document.
NChunks == 3
\* translator.py:9 sets 10; the gate is generic in the value and is checked
\* here with a limit below the number of chunks, so that it saturates.
MAX_CONCURRENT == 2
\* Largest page count count_pages finds in an uploaded document.
MaxPages == 120
\* Texts: at most MaxPieces pieces and MaxChars characters; chunk sizes
\* 1..MaxSize (DEFAULT_CHUNK_SIZE scaled to texts of this length).
MaxPieces == 4
MaxChars == 24
MaxSize == 4
\* Payments and gifts handled (successful_payment, the admin's gift).
MaxCredits == 1

\* ---------------------------------------------------------- constants
STARS_PER_50_PAGES == 20
MAX_FILE_SIZE_MB == 50

Users == {"alice", "bob"}
\* Page counts count_pages returns for the files the users have.
PageChoices == {50, 120}
JobIds == 1..MaxJobs
\* users.balance at the start of SpecBatch: alice can pay for 120 pages,
\* bob cannot; and of Spec: both can, once.
InitBalance == [u \in Users |-> IF u = "alice" THEN 50 ELSE 40]
InitBalanceJobs == [u \in Users |-> 50]

NoUser == "nobody"
Empty == <<>>
\* message.content of a backend response that carries no text.
None == <<"None">>
\* No value yet (a call that has not returned).
NotYet == <<"-">>

VARIABLES
    balance,       \* users.balance, per tg_id
    spent,         \* transactions of type 'spend': amount, per job
    debited,       \* history: what the UPDATE of spend_stars took off the
                   \* balance, per job
    credited,      \* history: what the UPDATEs of add_stars and gift_stars
                   \* added to a balance, in order: <<tg_id, amount>>
    pending_jobs,  \* handlers.pending_jobs: job_id -> [user_id, cost]
    active_jobs,   \* handlers.active_jobs: user_id -> bool
    dirs,          \* job directories TMP_DIR/job_id that exist
    next_id,       \* job ids handed out so far
    env,           \* what the users upload (fixed by Init): how many
                   \* documents, their page counts, the chunk count and the
                   \* senders of each, their files; what the backend
                   \* answers (contents); whether a progress message or
                   \* the message of an except clause can fail to go out
                   \* (delivery); how many payments and gifts there are
                   \* (credits), to whom (buyers) and of what amounts
                   \* (packs, gifts)
    intake,        \* handle_document coroutines: job_id -> [pc, user,
                   \* pages, balance (what get_balance returned)]
    task,          \* _run_translation tasks, per job_id
    started,       \* create_task(_run_translation(...)) calls, per job_id
    chunk,         \* _process tasks: job_id -> idx -> position
    results,       \* translate_markdown.results, per job
    returned,      \* history: what translate_chunk returned for a chunk
                   \* (NotYet before), per job
    done_count,    \* translate_markdown.done_count, per job
    waiters,       \* FIFO of the _process tasks waiting for lock, per job
    notified,      \* history: final messages (result document, error or
                   \* cancel text) that went out to the requester, per job
    progress,      \* history: the done values progress_callback was called
                   \* with, in call order, per job
    cancel_seen,   \* history: jobs whose requester's cancel was acknowledged
                   \* while a chunk's completion was still unreported
    refused,       \* history: the refusals handle_document answered
                   \* before creating a job, in order
    lost,          \* history: jobs one of whose progress messages could
                   \* not be delivered
    txt            \* a text put through the translator's pure functions:
                   \* [pc, text, chunk_size, cleaned, images, restored,
                   \*  chunks]

vars == <<balance, spent, debited, credited, pending_jobs, active_jobs, dirs,
          next_id, env, intake, task, started, chunk, results, returned,
          done_count, waiters, progress, notified,
          cancel_seen, refused, lost, txt>>

\* The chunk indices of the document of job j.
Idx(j) == 0..(env.chunks[j] - 1)

\* ------------------------------------------------------ pure helpers
Max(a, b) == IF a >= b THEN a ELSE b

\* The quotient rounded down instead of up.
calc_cost_floor(pages) == Max(1, (pages * STARS_PER_50_PAGES) \div 50)
\* max(1, math.ceil(pages / 50 * STARS_PER_50_PAGES)).  The source computes
\* the quotient in double precision; at the configured rate of 20 the
\* rounded product is the exact one for every page count (compared up to
\* 3,000,000 pages), so the ceiling is taken of the exact quotient here.
calc_cost(pages) ==
    Max(1, (pages * STARS_PER_50_PAGES + 49) \div 50)

\* The text of chunk idx of a document, and the translation of it the
\* backend gives when it gives one.
ChunkText(i) == <<"en", i>>
backend(text) == <<"ru", text[2]>>
\* What the backend puts in message.content: a translation, "" or None.
content_of(translation, kind) ==
    CASE kind = "text" -> translation
      [] kind = "empty" -> <<>>
      [] kind = "none" -> None
\* translator.py 96: `content or ""`, content being the backend's answer
\* to the call of translator.py 88-95.
translate_chunk(content) == IF content \in {None, <<>>} THEN <<>> ELSE content

\* dict.pop(key, None) / del dict[key]
Without(f, keys) == [k \in (DOMAIN f) \ keys |-> f[k]]
\* dict[key] = value
With(f, key, value) == [k \in (DOMAIN f) \cup {key} |-> IF k = key THEN value ELSE f[k]]

\* shutil.rmtree(job_dir, ignore_errors=True)
cleanup(ds, j) == ds \ {j}

NoTask == [pc |-> "none", user |-> NoUser, owner |-> NoUser, cost |-> 0,
           exc |-> "none", translated |-> Empty]
NoIntake == [pc |-> "none", user |-> NoUser, pages |-> 0, balance |-> 0]

RunningPcs == {"get_format", "status", "notify_empty", "title", "translating",
               "spend", "spend_row", "assemble", "sending", "reply",
               "delete", "notify_cancelled", "notify_failed"}
TerminalPcs == {"completed", "failed", "cancelled"}

Running(j) == task[j].pc \in RunningPcs
Terminal(j) == task[j].pc \in TerminalPcs

\* ------------------------------------------- translator.py: pure text
\* A text is the sequence of its characters (one-character strings).
Digit == <<"0", "1", "2", "3", "4", "5", "6", "7", "8", "9">>
\* str(idx)
Str(k) == IF k < 10 THEN <<Digit[k + 1]>>
          ELSE <<Digit[(k \div 10) + 1], Digit[(k % 10) + 1]>>
\* translator.py 39 and 49: f"<<IMG_{idx}>>"
placeholder(idx) == <<"<", "<", "I", "M", "G", "_">> \o Str(idx) \o <<">", ">">>

\* The least position q >= p of character c in t, 0 when there is none.
RECURSIVE Find(_, _, _)
Find(t, c, p) ==
    IF p > Len(t) THEN 0
    ELSE IF t[p] = c THEN p
    ELSE Find(t, c, p + 1)

\* translator.py 30: _IMG_RE = !\[[^\]]*\]\([^)]+\) tried at position p: the
\* position of the closing parenthesis of the match, 0 when there is none.
\* Neither class can step over its own delimiter, so the first "]" and the
\* first ")" are the only candidates.
img_match(t, p) ==
    IF ~(p + 1 <= Len(t) /\ t[p] = "!" /\ t[p + 1] = "[") THEN 0
    ELSE LET q == Find(t, "]", p + 2)
         IN  IF q = 0 \/ q + 1 > Len(t) THEN 0
             ELSE IF t[q + 1] # "(" THEN 0
             ELSE LET r == Find(t, ")", q + 2)
                  IN  IF r = 0 \/ r = q + 2 THEN 0 ELSE r

\* translator.py 33-43: _IMG_RE.sub(_replace, text) from position p on, with
\* the text cleaned so far and the images found so far.
RECURSIVE protect_from(_, _, _, _)
protect_from(t, p, cleaned, images) ==
    IF p > Len(t) THEN [cleaned |-> cleaned, images |-> images]
    ELSE LET r == img_match(t, p)
         IN  IF r = 0
             THEN protect_from(t, p + 1, Append(cleaned, t[p]), images)
             ELSE protect_from(t, r + 1,
                               cleaned \o placeholder(Len(images)),
                               Append(images, SubSeq(t, p, r)))

\* _protect_images(text): [cleaned, images].
protect_images(t) == protect_from(t, 1, <<>>, <<>>)

\* t has old at position p.
OccursAt(t, old, p) ==
    /\ p + Len(old) - 1 <= Len(t)
    /\ SubSeq(t, p, p + Len(old) - 1) = old

\* str.replace(old, new) from position p on (old is not empty): every
\* occurrence, left to right, not overlapping.
RECURSIVE replace_from(_, _, _, _, _)
replace_from(t, p, old, new, out) ==
    IF p > Len(t) THEN out
    ELSE IF OccursAt(t, old, p)
    THEN replace_from(t, p + Len(old), old, new, out \o new)
    ELSE replace_from(t, p + 1, old, new, Append(out, t[p]))

\* translator.py 48-50 for idx = k, k + 1, ...: one replace after the other.
RECURSIVE restore_from(_, _, _)
restore_from(t, images, k) ==
    IF k >= Len(images) THEN t
    ELSE restore_from(replace_from(t, 1, placeholder(k), images[k + 1], <<>>),
                      images, k + 1)

\* _restore_images(text, images)
restore_images(t, images) == restore_from(t, images, 0)

\* str.split("\n") from position p on: the lines before p are in lines,
\* the line being read is cur.
RECURSIVE lines_from(_, _, _, _)
lines_from(t, p, lines, cur) ==
    IF p > Len(t) THEN Append(lines, cur)
    ELSE IF t[p] = "\n" THEN lines_from(t, p + 1, Append(lines, cur), <<>>)
    ELSE lines_from(t, p + 1, lines, Append(cur, t[p]))

\* text.split("\n")
split_lines(t) == lines_from(t, 1, <<>>, <<>>)

\* The lines one after the other with no line break between.
RECURSIVE join_flat(_)
join_flat(lines) ==
    IF lines = <<>> THEN <<>> ELSE lines[1] \o join_flat(Tail(lines))

\* "\n".join(lines)
RECURSIVE join_lines(_)
join_lines(lines) ==
    IF lines = <<>> THEN <<>>
    ELSE IF Len(lines) = 1 THEN lines[1]
    ELSE lines[1] \o <<"\n">> \o join_lines(Tail(lines))

\* Characters str.strip() removes: the ones str.isspace() holds of.  A
\* character the language has no escape for is written by its code point
\* ("U+00A0" is one character, the no-break space).
Whitespace ==
    {"\t", "\n", "U+000B", "\f", "\r", "U+001C", "U+001D", "U+001E", "U+001F",
     " ", "U+0085", "U+00A0", "U+1680", "U+2000", "U+2001", "U+2002",
     "U+2003", "U+2004", "U+2005", "U+2006", "U+2007", "U+2008", "U+2009",
     "U+200A", "U+2028", "U+2029", "U+202F", "U+205F", "U+3000"}
\* c.strip() is empty.
is_blank(c) == \A k \in 1..Len(c) : c[k] \in Whitespace
\* line.startswith("#")
is_heading(line) == Len(line) >= 1 /\ line[1] = "#"

\* Every overflowing line closes the chunk behind it, headings too.
heading_rule_off(line) == FALSE
\* translator.py 65: the overflowing line is a heading.
heading_rule(line) == is_heading(line)

\* translator.py 60-78: the loop from line k on, with chunks, current_chunk
\* and current_len as they stand.
RECURSIVE split_loop(_, _, _, _, _, _)
split_loop(lines, k, chunk_size, chunks, current_chunk, current_len) ==
    IF k > Len(lines)
    THEN [chunks |-> chunks, current_chunk |-> current_chunk]
    ELSE LET line == lines[k]
             line_len == Len(line) + 1
         IN  IF current_len + line_len > chunk_size /\ current_chunk # <<>>
             THEN IF heading_rule(line)
                  THEN split_loop(lines, k + 1, chunk_size,
                                  Append(chunks, join_lines(current_chunk)),
                                  <<line>>, line_len)
                  ELSE split_loop(lines, k + 1, chunk_size,
                                  Append(chunks,
                                         join_lines(Append(current_chunk, line))),
                                  <<>>, 0)
             ELSE split_loop(lines, k + 1, chunk_size, chunks,
                             Append(current_chunk, line),
                             current_len + line_len)

\* translator.py 86-96 on a text: a translator that rewrites the letters
\* and leaves every other character, placeholder tokens included, as it is.
translate_text(c) == [k \in 1..Len(c) |-> IF c[k] = "a" THEN "b" ELSE c[k]]

\* translator.py 132: "\n\n".join(results)
RECURSIVE join_results(_)
join_results(res) ==
    IF res = <<>> THEN <<>>
    ELSE IF Len(res) = 1 THEN res[1]
    ELSE res[1] \o <<"\n", "\n">> \o join_results(Tail(res))

\* The chunks kept whether blank or not.
keep_all(chunks) == chunks
\* translator.py 83: [c for c in chunks if c.strip()]
drop_blank(chunks) == SelectSeq(chunks, LAMBDA c : ~is_blank(c))

\* translator.py 56-81: chunks as it stands before the return statement.
all_chunks(t, chunk_size) ==
    LET r == split_loop(split_lines(t), 1, chunk_size, <<>>, <<>>, 0)
    IN  IF r.current_chunk # <<>>
        THEN Append(r.chunks, join_lines(r.current_chunk))
        ELSE r.chunks

\* translator.py 54-83: split_into_chunks(text, chunk_size)
split_into_chunks(t, chunk_size) == drop_blank(all_chunks(t, chunk_size))

\* handlers.py 402-403.
allowed_mimes == {"application/pdf", "application/epub+zip"}
allowed_exts == {".pdf", ".epub"}
\* document.file_size of exactly the limit, in bytes.
LimitBytes == MAX_FILE_SIZE_MB * 1024 * 1024
\* Documents a user may send: mime_type, suffix of file_name, file_size
\* (0 stands for a missing file_size as well).
AllFiles ==
    [mime : allowed_mimes \cup {"text/plain"},
     ext  : allowed_exts \cup {".txt"},
     size : {0, LimitBytes, LimitBytes + 1}]
\* A PDF named and typed as one, of 1 MB.
PdfFiles == {[mime |-> "application/pdf", ext |-> ".pdf", size |-> 1048576]}

\* A check that lets every document through.
accept_all(f) == "ok"
\* handlers.py 398-414: the answer of the type and size checks:
\* file_size / (1024 * 1024) > MAX_FILE_SIZE_MB is file_size > LimitBytes.
validate(f) ==
    IF f.mime \notin allowed_mimes /\ f.ext \notin allowed_exts THEN "bad_type"
    ELSE IF f.size > LimitBytes THEN "too_big"
    ELSE "ok"

\* How an await inside the try block of handle_document ends:
\*   "ok":           it returned;
\*   "raised":       it raised, the except clause's message was delivered
\*                   and _cleanup ran;
\*   "error_raised": it raised and the except clause's message raised too:
\*                   the handler ended before _cleanup.
Awaited == {"ok", "raised", "error_raised"}

\* No text in work.
NoText == [pc |-> "idle", text |-> <<>>, chunk_size |-> 0, cleaned |-> <<>>,
           images |-> <<>>, restored |-> <<>>, chunks |-> <<>>,
           results |-> <<>>, done |-> {}, translated |-> <<>>]

\* The pieces texts are made of: two image references (the second with a
\* placeholder token as its alternative text), a literal placeholder token,
\* a letter, the heading mark, a blank, the line break and the carriage
\* return (of a text with "\r\n" line ends).
Image_a == <<"!", "[", "a", "]", "(", "p", ")">>
Image_ph == <<"!", "[">> \o placeholder(1) \o <<"]", "(", "q", ")">>
Pieces == {Image_a, Image_ph, placeholder(0),
           <<"a">>, <<"#">>, <<" ">>, <<"\n">>, <<"\r">>}

\* ps[1] ps[2] ... in one text.
RECURSIVE Concat(_)
Concat(ps) == IF ps = <<>> THEN <<>> ELSE ps[1] \o Concat(Tail(ps))

\* Every text of at most MaxPieces pieces and MaxChars characters.
Texts ==
    {t \in {Concat(ps) : ps \in UNION {[1..n -> Pieces] : n \in 0..MaxPieces}} :
        Len(t) <= MaxChars}

\* ---------------------------------------------------------------- Init
InitWith(e, bal) ==
    /\ env = e
    /\ refused = <<>>
    /\ balance = bal
    /\ spent = [j \in JobIds |-> 0]
    /\ debited = [j \in JobIds |-> 0]
    /\ credited = <<>>
    /\ pending_jobs = Empty
    /\ active_jobs = Empty
    /\ dirs = {}
    /\ next_id = 0
    /\ intake = [j \in JobIds |-> NoIntake]
    /\ task = [j \in JobIds |-> NoTask]
    /\ started = [j \in JobIds |-> 0]
    /\ chunk = [j \in JobIds |-> [i \in 0..(e.chunks[j] - 1) |-> "idle"]]
    /\ results = [j \in JobIds |-> [i \in 0..(e.chunks[j] - 1) |-> Empty]]
    /\ returned = [j \in JobIds |-> [i \in 0..(e.chunks[j] - 1) |-> NotYet]]
    /\ done_count = [j \in JobIds |-> 0]
    /\ waiters = [j \in JobIds |-> <<>>]
    /\ progress = [j \in JobIds |-> <<>>]
    /\ notified = [j \in JobIds |-> 0]
    /\ cancel_seen = {}
    /\ lost = {}

\* Several jobs side by side: documents of 120 pages, the first of two
\* chunks and sent by alice, the others of one chunk and sent by anybody;
\* every progress message and every message of an except clause is
\* delivered.
EnvJobs ==
    [uploads |-> MaxJobs, pages |-> {120},
     chunks |-> [j \in JobIds |-> IF j = 1 THEN 2 ELSE 1],
     senders |-> [j \in JobIds |-> IF j = 1 THEN {"alice"} ELSE Users],
     files |-> PdfFiles, awaited |-> {"ok"},
     contents |-> {"text"}, delivery |-> {TRUE},
     credits |-> MaxCredits, buyers |-> {"alice"}, packs |-> {50},
     gifts |-> {50}]
\* One job: a document of 50 or 120 pages and NChunks chunks.
EnvBatch ==
    [uploads |-> 1, pages |-> PageChoices,
     chunks |-> [j \in JobIds |-> NChunks],
     senders |-> [j \in JobIds |-> Users],
     files |-> PdfFiles, awaited |-> Awaited,
     contents |-> {"text", "empty", "none"}, delivery |-> BOOLEAN,
     credits |-> MaxCredits, buyers |-> Users, packs |-> {10},
     gifts |-> {10}]
\* Page counts around the steps of the cost function, up to MaxPages.
PageGrid ==
    {p \in 0..MaxPages : \/ p <= 3
                         \/ p \in {49, 50, 51, 99, 100, 101}
                         \/ p >= MaxPages - 1}
\* One job: any document, valid or not, of a page count of PageGrid, two
\* chunks.
EnvIntake ==
    [uploads |-> 1, pages |-> PageGrid,
     chunks |-> [j \in JobIds |-> 2],
     senders |-> [j \in JobIds |-> Users],
     files |-> AllFiles, awaited |-> Awaited,
     contents |-> {"text"}, delivery |-> {TRUE},
     credits |-> MaxCredits, buyers |-> {"bob"}, packs |-> {7},
     gifts |-> {-7}]
\* One job of 120 pages and NChunks chunks, every answer of the backend a
\* text.
EnvFair ==
    [uploads |-> 1, pages |-> {120},
     chunks |-> [j \in JobIds |-> NChunks],
     senders |-> [j \in JobIds |-> Users],
     files |-> PdfFiles, awaited |-> Awaited,
     contents |-> {"text"}, delivery |-> BOOLEAN,
     credits |-> MaxCredits, buyers |-> {"alice"}, packs |-> {10},
     gifts |-> {10}]
\* No job.
EnvText ==
    [uploads |-> 0, pages |-> {},
     chunks |-> [j \in JobIds |-> 0],
     senders |-> [j \in JobIds |-> {}],
     files |-> {}, awaited |-> {},
     contents |-> {"text", "empty", "none"}, delivery |-> {},
     credits |-> 0, buyers |-> {}, packs |-> {}, gifts |-> {}]

Init == InitWith(EnvJobs, InitBalanceJobs) /\ txt = NoText
InitBatch == InitWith(EnvBatch, InitBalance) /\ txt = NoText
InitIntake == InitWith(EnvIntake, InitBalance) /\ txt = NoText
InitFair == InitWith(EnvFair, InitBalance) /\ txt = NoText
\* One text of Texts and one chunk size, given to the translator's
\* functions.
InitText ==
    /\ InitWith(EnvText, InitBalance)
    /\ \E t \in Texts, size \in 1..MaxSize :
          txt = [NoText EXCEPT !.pc = "input", !.text = t, !.chunk_size = size]

\* ------------------------------------------- handle_document (intake)
ledger == <<balance, spent, debited, credited>>
jobVars == <<task, started, chunk, results, returned, done_count, waiters,
             progress, notified, cancel_seen, lost>>
\* The handler has returned after a refusal or an error.
ClosedIntake == [NoIntake EXCEPT !.pc = "closed"]
\* The handler has returned after the offer with the confirm keyboard.
OfferedIntake == [NoIntake EXCEPT !.pc = "offered"]

\* handlers.py 387-421: get_or_create_user, the type and size checks (a
\* refusal is answered and the handler returns), then job_id, job_dir.mkdir
\* and the "analysing" message.  f is the document sent, one of the
\* env.uploads documents the users send.
HandleDocumentStart(u, f) ==
    /\ f \in env.files
    /\ next_id + Len(refused) < env.uploads
    /\ IF validate(f) # "ok"
       THEN /\ refused' = Append(refused, validate(f))
            /\ UNCHANGED <<next_id, dirs, intake>>
       ELSE /\ u \in env.senders[next_id + 1]
            /\ next_id' = next_id + 1
            /\ dirs' = dirs \cup {next_id + 1}
            /\ intake' = [intake EXCEPT ![next_id + 1] =
                             [NoIntake EXCEPT !.pc = "analysing", !.user = u]]
            /\ UNCHANGED refused
    /\ UNCHANGED <<ledger, pending_jobs, active_jobs, env, txt, jobVars>>

\* handlers.py 431: the negation of `balance < cost`.
affordable(bal, cost) == ~(bal < cost)
\* handlers.py 432: the deficit the refusal message shows.
deficit(bal, cost) == cost - bal

\* handlers.py 463-466: the directories after the except clause.
except_cleanup(ds, j, outcome) == IF outcome = "raised" THEN cleanup(ds, j) ELSE ds

\* handlers.py 423-429 and database.py 71-75: download, count_pages,
\* _calc_cost, and the SELECT of get_balance: the handler has the balance of
\* this moment when it resumes.  pages: what count_pages returned.  When
\* one of them raises: handlers.py 463-466.
HandleDocumentAnalyse(j, outcome, pages) ==
    /\ intake[j].pc = "analysing"
    /\ pages \in env.pages
    /\ IF outcome = "ok"
       THEN /\ intake' = [intake EXCEPT ![j].pc = "compare",
                                        ![j].pages = pages,
                                        ![j].balance = balance[intake[j].user]]
            /\ UNCHANGED dirs
       ELSE /\ intake' = [intake EXCEPT ![j] = ClosedIntake]
            /\ dirs' = except_cleanup(dirs, j, outcome)
    /\ UNCHANGED <<ledger, pending_jobs, active_jobs, next_id, env, txt,
                   refused, jobVars>>

\* handlers.py 429-451: handle_document resumes with the balance read:
\* either the deficit branch or the pending entry.
HandleDocumentCompare(j) ==
    /\ intake[j].pc = "compare"
    /\ LET cost == calc_cost(intake[j].pages)
       IN  IF ~affordable(intake[j].balance, cost)
           THEN /\ intake' = [intake EXCEPT ![j].pc = "reject"]
                /\ UNCHANGED pending_jobs
           ELSE /\ pending_jobs' = With(pending_jobs, j,
                                        [user_id |-> intake[j].user,
                                         cost |-> cost])
                /\ intake' = [intake EXCEPT ![j].pc = "offer"]
    /\ UNCHANGED <<ledger, active_jobs, dirs, next_id, env, txt, refused,
                   jobVars>>

\* handlers.py 433-443: the deficit message, then _cleanup and return; when
\* the message raises: handlers.py 463-466.
HandleDocumentReject(j, outcome) ==
    /\ intake[j].pc = "reject"
    /\ intake' = [intake EXCEPT ![j] = ClosedIntake]
    /\ dirs' = IF outcome = "ok" THEN cleanup(dirs, j)
                                 ELSE except_cleanup(dirs, j, outcome)
    /\ UNCHANGED <<ledger, pending_jobs, active_jobs, next_id, env, txt,
                   refused, jobVars>>

\* handlers.py 453-461: the message with the confirm keyboard, and the
\* handler returns; when the message raises: handlers.py 463-466, and the
\* entry written to pending_jobs stays there.
HandleDocumentOffer(j, outcome) ==
    /\ intake[j].pc = "offer"
    /\ intake' = [intake EXCEPT ![j] = IF outcome = "ok" THEN OfferedIntake
                                                         ELSE ClosedIntake]
    /\ dirs' = IF outcome = "ok" THEN dirs
                                 ELSE except_cleanup(dirs, j, outcome)
    /\ UNCHANGED <<ledger, pending_jobs, active_jobs, next_id, env, txt,
                   refused, jobVars>>

\* ------------------------------------------------ payments and gifts
\* database.py 81: UPDATE users SET balance = balance + amount.
add_stars(bal, u, amount) == [bal EXCEPT ![u] = @ + amount]
\* database.py 93: the same UPDATE.
gift_stars(bal, u, amount) == [bal EXCEPT ![u] = @ + amount]

\* handlers.py 360-382 and database.py 78-81: a payment of user u, up to the
\* return of the UPDATE of add_stars (what follows changes no balance).
\* amount is int(parts[1]) of the invoice payload, whatever it carries: the
\* invoice is made from the callback data "pack_<n>" (handlers.py 229-236)
\* with no look at the amounts of STAR_PACKAGES.
SuccessfulPayment(u, amount) ==
    /\ Len(credited) < env.credits
    /\ u \in env.buyers
    /\ amount \in env.packs
    /\ balance' = add_stars(balance, u, amount)
    /\ credited' = Append(credited, <<u, amount>>)
    /\ UNCHANGED <<spent, debited, pending_jobs, active_jobs, dirs, next_id,
                   env, txt, refused, intake, jobVars>>

\* handlers.py 610-659 and database.py 90-93: the admin's message
\* "username amount" while a gift is awaited, up to the return of the UPDATE
\* of gift_stars; amount is int(amount_str), of either sign.
HandleTextGift(target, amount) ==
    /\ Len(credited) < env.credits
    /\ target \in env.buyers
    /\ amount \in env.gifts
    /\ balance' = gift_stars(balance, target, amount)
    /\ credited' = Append(credited, <<target, amount>>)
    /\ UNCHANGED <<spent, debited, pending_jobs, active_jobs, dirs, next_id,
                   env, txt, refused, intake, jobVars>>

\* --------------------------------------- handle_callback / commands
\* The table left in place (a lookup instead of a pop).
get_job(pj, j) == pj
\* pending_jobs.pop(job_id, None): the table after the pop.
pop_job(pj, j) == Without(pj, {j})

\* handlers.py 298-307: data = "confirm_<job_id>", pressed by user u.
\* What the handler answers: nothing of its own when the job starts.
confirm_reply(pj, j) == IF j \in DOMAIN pj THEN "started" ELSE "not_found"

\* handlers.py 298-307: the job starts whenever job_id is in pending_jobs
\* (from line 445 on: the button is on its way to the user while
\* handle_document still awaits the offer message, and stays there when
\* that message raised).
Confirm(u, j) ==
    IF confirm_reply(pending_jobs, j) = "not_found"
    THEN UNCHANGED vars
    ELSE /\ pending_jobs' = pop_job(pending_jobs, j)
         /\ task' = [task EXCEPT ![j] =
                        [pc |-> "get_format", user |-> u,
                         owner |-> pending_jobs[j].user_id,
                         cost |-> pending_jobs[j].cost,
                         exc |-> "none", translated |-> Empty]]
         /\ started' = [started EXCEPT ![j] = @ + 1]
         /\ UNCHANGED <<ledger, active_jobs, dirs, next_id, env, txt, refused,
                        intake, chunk, results, returned, done_count, waiters,
                        progress, notified, cancel_seen, lost>>

\* A chunk whose completion on_progress has not been told of yet.
Unreported(j) == {i \in Idx(j) : chunk[j][i] \in {"queued", "call", "lockwait"}}

\* handlers.py 166-174 (/cancel) and 282-287 (data = "cancel"): same body.
cancel_reply(aj, u) == IF u \in DOMAIN aj THEN "cancelling" ELSE "nothing_active"
\* active_jobs after the handler.
cancel_flags(aj, u) == IF u \in DOMAIN aj THEN With(aj, u, TRUE) ELSE aj

Cancel(u) ==
    /\ active_jobs' = cancel_flags(active_jobs, u)
    /\ cancel_seen' =
          IF cancel_reply(active_jobs, u) = "cancelling"
          THEN cancel_seen \cup {j \in JobIds : /\ task[j].user = u
                                                /\ task[j].pc = "translating"
                                                /\ task[j].exc = "none"
                                                /\ Unreported(j) # {}}
          ELSE cancel_seen
    /\ UNCHANGED <<ledger, pending_jobs, dirs, next_id, env, txt, refused,
                   intake, task, started, chunk, results, returned,
                   done_count, waiters, progress, notified, lost>>

\* Every pending job, whoever owns it.
all_pending(pj, u) == DOMAIN pj
\* handlers.py 291: the job ids whose entry has user_id == the presser.
to_remove_ids(pj, u) == {j \in DOMAIN pj : pj[j].user_id = u}

\* handlers.py 289-295: data = "cancel_job".
CancelJob(u) ==
    LET to_remove == to_remove_ids(pending_jobs, u)
    IN  /\ dirs' = dirs \ to_remove
        /\ pending_jobs' = Without(pending_jobs, to_remove)
        /\ UNCHANGED <<ledger, active_jobs, next_id, env, txt, refused, intake,
                       jobVars>>

\* ------------------------------------------------- _run_translation
notBatch == <<chunk, results, returned, done_count, waiters, progress>>
frontBase == <<pending_jobs, next_id, env, txt, intake, started, cancel_seen,
               refused, lost>>
front == <<frontBase, notified>>

Goto(j, pc) == task' = [task EXCEPT ![j].pc = pc]

\* handlers.py 477: await get_format, before the try.  When it raises the
\* task ends there: no except clause, no finally.
GetFormat(j, ok) ==
    /\ task[j].pc = "get_format"
    /\ Goto(j, IF ok THEN "status" ELSE "failed")
    /\ UNCHANGED <<ledger, front, active_jobs, dirs, notBatch>>

\* handlers.py 483-508: the first status message, then extract_metadata,
\* extract_cover_image and extract_to_markdown (synchronous).
\*   "msg_raised": message.edit_text raised; status_msg is unbound, so the
\*                 except clause's own edit_text raises too (swallowed), and
\*                 finally runs _cleanup: the task ends in this step.
\*   "raised":     extract_to_markdown raised, after its
\*                 image_dir.mkdir(parents=True) (extractor.py 83), which
\*                 makes the job directory again when it was removed.
\*   "empty":      md_text is blank.
\* A document whose directory was removed cannot be read: "ok" and "empty"
\* need the directory.
Status(j, outcome) ==
    /\ task[j].pc = "status"
    /\ CASE outcome = "msg_raised" ->
              /\ Goto(j, "failed")
              /\ dirs' = cleanup(dirs, j)
         [] outcome = "raised" ->
              /\ Goto(j, "notify_failed")
              /\ dirs' = dirs \cup {j}
         [] outcome = "empty" ->
              /\ j \in dirs
              /\ Goto(j, "notify_empty")
              /\ UNCHANGED dirs
         [] outcome = "ok" ->
              /\ j \in dirs
              /\ Goto(j, "title")
              /\ UNCHANGED dirs
    /\ UNCHANGED <<ledger, front, active_jobs, notBatch>>

\* handlers.py 504-508 and 598-605: the message of the empty extraction is
\* sent inside the try block.
\*   "ok":     it returned: return, and finally: _cleanup.
\*   "lost":   it raised after the message went out (a lost answer):
\*             `except Exception` takes over.
\*   "raised": it raised and nothing went out: `except Exception` takes
\*             over.
NotifyEmpty(j, outcome) ==
    /\ task[j].pc = "notify_empty"
    /\ CASE outcome = "ok" ->
              /\ Goto(j, "failed")
              /\ notified' = [notified EXCEPT ![j] = @ + 1]
              /\ dirs' = cleanup(dirs, j)
         [] outcome = "lost" ->
              /\ Goto(j, "notify_failed")
              /\ notified' = [notified EXCEPT ![j] = @ + 1]
              /\ UNCHANGED dirs
         [] outcome = "raised" ->
              /\ Goto(j, "notify_failed")
              /\ UNCHANGED <<notified, dirs>>
    /\ UNCHANGED <<ledger, frontBase, active_jobs, notBatch>>

\* handlers.py 511-530 and translator.py 108-130: the title status message,
\* translate_chunk(orig_title) (a failure falls back to the original title),
\* the 0% message; then active_jobs[user_id] = False and translate_markdown
\* up to its gather: the _process tasks are created, none has run yet.
Title(j, ok) ==
    /\ task[j].pc = "title"
    /\ IF ok
       THEN /\ Goto(j, "translating")
            /\ active_jobs' = With(active_jobs, task[j].user, FALSE)
            /\ chunk' = [chunk EXCEPT ![j] = [i \in Idx(j) |-> "queued"]]
            /\ results' = [results EXCEPT ![j] = [i \in Idx(j) |-> Empty]]
            /\ returned' = [returned EXCEPT ![j] = [i \in Idx(j) |-> NotYet]]
            /\ done_count' = [done_count EXCEPT ![j] = 0]
            /\ waiters' = [waiters EXCEPT ![j] = <<>>]
            /\ progress' = [progress EXCEPT ![j] = <<>>]
       ELSE /\ Goto(j, "notify_failed")
            /\ UNCHANGED <<active_jobs, notBatch>>
    /\ UNCHANGED <<ledger, front, dirs>>

\* ---------------------------------- translate_markdown._process(idx)
\* Permits of sem held: a task holds one from the call to its end.
Holding(j) == {i \in Idx(j) : chunk[j][i] \in {"call", "lockwait", "notify"}}
\* External translation calls in flight.
InFlight(j) == {i \in Idx(j) : chunk[j][i] = "call"}
Queued(j) == {i \in Idx(j) : chunk[j][i] = "queued"}
\* A gate that admits everybody.
sem_unbounded(j) == TRUE
\* asyncio.Semaphore.acquire: a permit is free.
sem_free(j) == Cardinality(Holding(j)) < MAX_CONCURRENT
\* A lock that is never granted.
lock_never(j) == FALSE
\* No lock: a task never has to wait.
lock_ignored(j) == TRUE
\* asyncio.Lock: held by the task inside on_progress.
lock_free(j) == \A i \in Idx(j) : chunk[j][i] # "notify"

\* results.append(...): the first slot not written yet.
slot_append(j, i) == Cardinality({k \in Idx(j) : returned[j][k] # NotYet})
\* The slot of results a completing call writes.
slot(j, i) == i

\* A _process task ended by an exception: gather hands the first one to
\* translate_markdown's caller and leaves the other tasks running.
Raise(j, kind) ==
    task' = [task EXCEPT ![j].exc = IF @ = "none" THEN kind ELSE @]

\* A counter that reports the chunk's own position.
done_by_index(d, i) == i + 1
\* translator.py 126: done_count += 1 (by the task of chunk i).
done_value(d, i) == d + 1

\* translator.py 126-128 and handlers.py 531-541 on entry: done_count += 1,
\* progress_callback(done_count, total) is called, and on_progress looks at
\* active_jobs.get(user_id) and either raises or starts its edit_text.
on_progress_enter(j, i) ==
    /\ done_count' = [done_count EXCEPT ![j] = done_value(@, i)]
    /\ progress' = [progress EXCEPT
                       ![j] = Append(@, done_value(done_count[j], i))]
    /\ IF task[j].user \in DOMAIN active_jobs /\ active_jobs[task[j].user]
       THEN /\ chunk' = [chunk EXCEPT ![j][i] = "raised"]
            /\ Raise(j, "cancel")
       ELSE /\ chunk' = [chunk EXCEPT ![j][i] = "notify"]
            /\ UNCHANGED task

\* translator.py 122-123: async with sem (FIFO), then the call is sent.
Dispatch(j, i) ==
    /\ chunk[j][i] = "queued"
    /\ \A k \in Queued(j) : i <= k
    /\ sem_free(j)
    /\ chunk' = [chunk EXCEPT ![j][i] = "call"]
    /\ UNCHANGED <<ledger, front, active_jobs, dirs, task, results, returned,
                   done_count, waiters, progress>>

\* translator.py 124-128 and 96: the backend answered (kind: with a text,
\* with "" or with None); what translate_chunk returns is stored, then
\* async with lock: entered at once when the lock is free and nobody waits,
\* queued otherwise.
CallReturn(j, i, kind) ==
    /\ chunk[j][i] = "call"
    /\ kind \in env.contents
    /\ LET r == translate_chunk(content_of(backend(ChunkText(i)), kind))
       IN  /\ results' = [results EXCEPT ![j][slot(j, i)] = r]
           /\ returned' = [returned EXCEPT ![j][i] = r]
    /\ IF lock_free(j) /\ waiters[j] = <<>>
       THEN /\ on_progress_enter(j, i)
            /\ UNCHANGED waiters
       ELSE /\ chunk' = [chunk EXCEPT ![j][i] = "lockwait"]
            /\ waiters' = [waiters EXCEPT ![j] = Append(@, i)]
            /\ UNCHANGED <<task, done_count, progress>>
    /\ UNCHANGED <<ledger, front, active_jobs, dirs>>

\* translator.py 124: translate_chunk raised (backend error).
CallFail(j, i) ==
    /\ chunk[j][i] = "call"
    /\ chunk' = [chunk EXCEPT ![j][i] = "raised"]
    /\ Raise(j, "error")
    /\ UNCHANGED <<ledger, front, active_jobs, dirs, results, returned,
                   done_count, waiters, progress>>

\* translator.py 125-128: the first waiter gets the released lock.
LockAcquire(j, i) ==
    /\ waiters[j] # <<>>
    /\ Head(waiters[j]) = i
    /\ lock_free(j)
    /\ waiters' = [waiters EXCEPT ![j] = Tail(@)]
    /\ on_progress_enter(j, i)
    /\ UNCHANGED <<ledger, front, active_jobs, dirs, results, returned>>

\* An on_progress that lets the exception of edit_text through.
on_progress_escalate(delivered) == IF delivered THEN "done" ELSE "raised"
\* handlers.py 535-541: how on_progress ends when edit_text returned
\* (delivered) or raised: `except Exception: pass`, it returns either way.
on_progress_exit(delivered) == "done"

\* handlers.py 535-541: on_progress's edit_text returned or raised; lock
\* and permit are released, the task _process ends.
ProgressReturn(j, i, delivered) ==
    /\ chunk[j][i] = "notify"
    /\ chunk' = [chunk EXCEPT ![j][i] = on_progress_exit(delivered)]
    /\ IF on_progress_exit(delivered) = "raised"
       THEN Raise(j, "error")
       ELSE UNCHANGED task
    /\ lost' = IF delivered THEN lost ELSE lost \cup {j}
    /\ UNCHANGED <<ledger, pending_jobs, next_id, env, txt, intake, started,
                   cancel_seen, refused, notified, active_jobs, dirs,
                   results, returned, done_count, waiters, progress>>

\* ------------------------------------ _run_translation, after gather
\* "\n\n".join(results), as the sequence of the joined parts.
joined(res) == [k \in 1..Cardinality(DOMAIN res) |-> res[k - 1]]

\* The flag left in place.
keep_flag(aj, u) == aj
\* handlers.py 546: active_jobs.pop(user_id, None).
pop_flag(aj, u) == Without(aj, {u})

\* The exception taken as a normal return of translate_markdown.
except_swallowed(exc) == "spend"
\* handlers.py 593-603: the except clause an exception of translate_markdown
\* selects: RuntimeError with the cancel text, or anything else.
except_clause(exc) ==
    IF exc = "cancel" THEN "notify_cancelled" ELSE "notify_failed"

\* A gather that takes a task ended by an exception as finished
\* (return_exceptions=True).
finished_or_raised(c) == c \in {"done", "raised"}
\* translator.py 130: what gather waits for in each _process task.
finished(c) == c = "done"

\* translator.py 130-138 and handlers.py 544-546: every _process ended
\* normally; finally pops the flag.
GatherReturn(j) ==
    /\ task[j].pc = "translating"
    /\ \A i \in Idx(j) : finished(chunk[j][i])
    /\ task' = [task EXCEPT ![j].pc = "spend",
                            ![j].translated = joined(results[j])]
    /\ active_jobs' = pop_flag(active_jobs, task[j].user)
    /\ UNCHANGED <<ledger, front, dirs, notBatch>>

\* handlers.py 544-546 and 593-599: gather raised the first exception of a
\* _process; finally pops the flag; the except clause is chosen.
GatherRaise(j) ==
    /\ task[j].pc = "translating"
    /\ task[j].exc # "none"
    /\ Goto(j, except_clause(task[j].exc))
    /\ active_jobs' = pop_flag(active_jobs, task[j].user)
    /\ UNCHANGED <<ledger, front, dirs, notBatch>>

\* A debit of twice the amount.
spend_twice(bal, u, amount) == [bal EXCEPT ![u] = @ - 2 * amount]
\* database.py 105: UPDATE users SET balance = balance - amount.
spend_stars(bal, u, amount) == [bal EXCEPT ![u] = @ - amount]

\* handlers.py 549 and database.py 104-105: spend_stars up to the return of
\* its UPDATE.  ok = FALSE: it raised before the balance was changed; the
\* call is inside the try block, `except Exception` takes over.
SpendUpdate(j, ok) ==
    /\ task[j].pc = "spend"
    /\ IF ok
       THEN /\ balance' = spend_stars(balance, task[j].user, task[j].cost)
            /\ debited' = [debited EXCEPT ![j] = @ + task[j].cost]
            /\ Goto(j, "spend_row")
       ELSE /\ Goto(j, "notify_failed")
            /\ UNCHANGED <<balance, debited>>
    /\ UNCHANGED <<spent, credited, front, active_jobs, dirs, notBatch>>

\* database.py 106-111: the INSERT of the 'spend' row, commit and the
\* get_balance whose value the result message shows.
\*   "ok":            all returned.
\*   "raised":        the INSERT raised: no row; the UPDATE stays in the
\*                    connection every handler shares (nothing rolls back).
\*   "commit_raised": commit or get_balance raised, after the row.
SpendInsert(j, outcome) ==
    /\ task[j].pc = "spend_row"
    /\ CASE outcome = "ok" ->
              /\ spent' = [spent EXCEPT ![j] = @ + task[j].cost]
              /\ Goto(j, "assemble")
         [] outcome = "raised" ->
              /\ Goto(j, "notify_failed")
              /\ UNCHANGED spent
         [] outcome = "commit_raised" ->
              /\ spent' = [spent EXCEPT ![j] = @ + task[j].cost]
              /\ Goto(j, "notify_failed")
    /\ UNCHANGED <<balance, debited, credited, front, active_jobs, dirs,
                   notBatch>>

\* handlers.py 551-580: the "assembling" message, then generate_cover and
\* markdown_to_epub (fmt "epub") or markdown_to_pdf (synchronous), up to the
\* await of the "sending" message.  fmt is what get_format returned at 477.
\*   "ok":            output_file is written.  generate_cover (cover.py 75)
\*                    makes the job directory again when it was removed;
\*                    markdown_to_pdf does not, and cannot write without
\*                    it.
\*   "raised":        the message raised, or the output failed before
\*                    anything was made.
\*   "output_raised": the output could not be written, for an EPUB after
\*                    generate_cover.
Assemble(j, fmt, outcome) ==
    /\ task[j].pc = "assemble"
    /\ CASE outcome = "ok" ->
              /\ fmt = "epub" \/ j \in dirs
              /\ Goto(j, "sending")
              /\ dirs' = dirs \cup {j}
         [] outcome = "raised" ->
              /\ Goto(j, "notify_failed")
              /\ UNCHANGED dirs
         [] outcome = "output_raised" ->
              /\ Goto(j, "notify_failed")
              /\ dirs' = IF fmt = "epub" THEN dirs \cup {j} ELSE dirs
    /\ UNCHANGED <<ledger, front, active_jobs, notBatch>>

\* handlers.py 580-584: the "sending" message and get_or_create_user
\* returned (ok) or one of them raised; then open(output_file), which
\* raises when the directory was removed meanwhile, and reply_document is
\* sent.
Sending(j, ok) ==
    /\ task[j].pc = "sending"
    /\ Goto(j, IF ok /\ j \in dirs THEN "reply" ELSE "notify_failed")
    /\ UNCHANGED <<ledger, front, active_jobs, dirs, notBatch>>

\* handlers.py 584-589: reply_document.
\*   "ok":     it returned; the document was delivered.
\*   "raised": it raised and nothing was delivered.
\*   "lost":   it raised after the document went out (a lost answer).
ReplyDocument(j, outcome) ==
    /\ task[j].pc = "reply"
    /\ CASE outcome = "ok" ->
              /\ Goto(j, "delete")
              /\ notified' = [notified EXCEPT ![j] = @ + 1]
         [] outcome = "raised" ->
              /\ Goto(j, "notify_failed")
              /\ UNCHANGED notified
         [] outcome = "lost" ->
              /\ Goto(j, "notify_failed")
              /\ notified' = [notified EXCEPT ![j] = @ + 1]
    /\ UNCHANGED <<ledger, frontBase, active_jobs, dirs, notBatch>>

\* handlers.py 591 and 598-605: status_msg.delete() returned, then finally:
\* _cleanup; or it raised and `except Exception` takes over.
Delete(j, ok) ==
    /\ task[j].pc = "delete"
    /\ IF ok
       THEN /\ Goto(j, "completed")
            /\ dirs' = cleanup(dirs, j)
       ELSE /\ Goto(j, "notify_failed")
            /\ UNCHANGED dirs
    /\ UNCHANGED <<ledger, front, active_jobs, notBatch>>

\* handlers.py 593-605: the message of an except clause, then finally:
\* _cleanup.  delivered: the message went out (its call returned, or raised
\* after); otherwise the call raised and nothing went out.  A raise is
\* swallowed (600-603) or leaves the task after the finally (594-597): the
\* task ends either way.
Notify(j, delivered) ==
    /\ task[j].pc \in {"notify_failed", "notify_cancelled"}
    /\ Goto(j, IF task[j].pc = "notify_cancelled" THEN "cancelled" ELSE "failed")
    /\ dirs' = cleanup(dirs, j)
    /\ notified' = [notified EXCEPT ![j] = IF delivered THEN @ + 1 ELSE @]
    /\ UNCHANGED <<ledger, frontBase, active_jobs, notBatch>>

\* ---------------------------------------------------------------- Next
Next ==
    \/ \E u \in Users, f \in env.files : HandleDocumentStart(u, f)
    \/ \E j \in JobIds, o \in env.awaited, pages \in env.pages :
          HandleDocumentAnalyse(j, o, pages)
    \/ \E j \in JobIds : HandleDocumentCompare(j)
    \/ \E j \in JobIds, o \in env.awaited : HandleDocumentReject(j, o)
    \/ \E j \in JobIds, o \in env.awaited : HandleDocumentOffer(j, o)
    \/ \E u \in Users, amount \in env.packs : SuccessfulPayment(u, amount)
    \/ \E u \in Users, amount \in env.gifts : HandleTextGift(u, amount)
    \/ \E u \in Users, j \in JobIds : Confirm(u, j)
    \/ \E u \in Users : Cancel(u)
    \/ \E u \in Users : CancelJob(u)
    \/ \E j \in JobIds, ok \in BOOLEAN : GetFormat(j, ok)
    \/ \E j \in JobIds, o \in {"msg_raised", "raised", "empty", "ok"} : Status(j, o)
    \/ \E j \in JobIds, o \in {"ok", "lost", "raised"} : NotifyEmpty(j, o)
    \/ \E j \in JobIds, ok \in BOOLEAN : Title(j, ok)
    \/ \E j \in JobIds : \E i \in Idx(j) : Dispatch(j, i)
    \/ \E j \in JobIds : \E i \in Idx(j), kind \in env.contents :
          CallReturn(j, i, kind)
    \/ \E j \in JobIds : \E i \in Idx(j) : CallFail(j, i)
    \/ \E j \in JobIds : \E i \in Idx(j) : LockAcquire(j, i)
    \/ \E j \in JobIds : \E i \in Idx(j), delivered \in env.delivery :
          ProgressReturn(j, i, delivered)
    \/ \E j \in JobIds : GatherReturn(j)
    \/ \E j \in JobIds : GatherRaise(j)
    \/ \E j \in JobIds, ok \in BOOLEAN : SpendUpdate(j, ok)
    \/ \E j \in JobIds, o \in {"ok", "raised", "commit_raised"} : SpendInsert(j, o)
    \/ \E j \in JobIds, fmt \in {"epub", "pdf"},
          o \in {"ok", "raised", "output_raised"} : Assemble(j, fmt, o)
    \/ \E j \in JobIds, ok \in BOOLEAN : Sending(j, ok)
    \/ \E j \in JobIds, o \in {"ok", "raised", "lost"} : ReplyDocument(j, o)
    \/ \E j \in JobIds, ok \in BOOLEAN : Delete(j, ok)
    \/ \E j \in JobIds, delivered \in env.delivery : Notify(j, delivered)

\* ------------------------------------------ the translator's functions
notText == <<balance, spent, debited, credited, pending_jobs, active_jobs,
             dirs, next_id, env, intake, task, started, chunk, results,
             returned, done_count, waiters, progress, notified, cancel_seen,
             refused, lost>>

\* translator.py 108 (and _protect_images called by itself).
ProtectImages ==
    /\ txt.pc = "input"
    /\ LET r == protect_images(txt.text)
       IN  txt' = [txt EXCEPT !.pc = "protected", !.cleaned = r.cleaned,
                              !.images = r.images]
    /\ UNCHANGED notText

\* _restore_images applied to what _protect_images returned.
RestoreImages ==
    /\ txt.pc = "protected"
    /\ txt' = [txt EXCEPT !.pc = "restored",
                          !.restored = restore_images(txt.cleaned, txt.images)]
    /\ UNCHANGED notText

\* split_into_chunks(text, chunk_size) called by itself.
SplitIntoChunks ==
    /\ txt.pc = "input"
    /\ txt' = [txt EXCEPT !.pc = "split",
                          !.chunks = split_into_chunks(txt.text, txt.chunk_size)]
    /\ UNCHANGED notText

\* translator.py 112-118: the protected text is split and results is
\* [""] * total.
TranslateMarkdownSplit ==
    /\ txt.pc = "protected"
    /\ LET cs == split_into_chunks(txt.cleaned, txt.chunk_size)
       IN  txt' = [txt EXCEPT !.pc = "gather", !.chunks = cs,
                              !.results = [k \in 1..Len(cs) |-> <<>>]]
    /\ UNCHANGED notText

\* translator.py 124: results[idx] = await translate_chunk(chunk), the
\* calls returning in any order, the backend answering with a text, with ""
\* or with None.
TranslateChunkReturn(idx, kind) ==
    /\ txt.pc = "gather"
    /\ idx \in 1..Len(txt.chunks)
    /\ idx \notin txt.done
    /\ kind \in env.contents
    /\ txt' = [txt EXCEPT
                  !.results[idx] =
                      translate_chunk(
                          content_of(translate_text(txt.chunks[idx]), kind)),
                  !.done = @ \cup {idx}]
    /\ UNCHANGED notText

\* translator.py 130-138: gather returns, the results are joined and the
\* images restored.
TranslateMarkdownReturn ==
    /\ txt.pc = "gather"
    /\ txt.done = 1..Len(txt.chunks)
    /\ txt' = [txt EXCEPT !.pc = "translated",
                          !.translated =
                              restore_images(join_results(txt.results),
                                             txt.images)]
    /\ UNCHANGED notText

NextText ==
    \/ ProtectImages
    \/ RestoreImages
    \/ SplitIntoChunks
    \/ TranslateMarkdownSplit
    \/ \E idx \in 1..Len(txt.chunks), kind \in env.contents :
          TranslateChunkReturn(idx, kind)
    \/ TranslateMarkdownReturn

Spec == Init /\ [][Next]_vars
SpecBatch == InitBatch /\ [][Next]_vars
SpecIntake == InitIntake /\ [][Next]_vars
SpecText == InitText /\ [][NextText]_vars

\* One step of the task _run_translation of job j.
TaskStep(j) ==
    \/ \E ok \in BOOLEAN : GetFormat(j, ok)
    \/ \E o \in {"msg_raised", "raised", "empty", "ok"} : Status(j, o)
    \/ \E o \in {"ok", "lost", "raised"} : NotifyEmpty(j, o)
    \/ \E ok \in BOOLEAN : Title(j, ok)
    \/ GatherReturn(j)
    \/ GatherRaise(j)
    \/ \E ok \in BOOLEAN : SpendUpdate(j, ok)
    \/ \E o \in {"ok", "raised", "commit_raised"} : SpendInsert(j, o)
    \/ \E fmt \in {"epub", "pdf"}, o \in {"ok", "raised", "output_raised"} :
          Assemble(j, fmt, o)
    \/ \E ok \in BOOLEAN : Sending(j, ok)
    \/ \E o \in {"ok", "raised", "lost"} : ReplyDocument(j, o)
    \/ \E ok \in BOOLEAN : Delete(j, ok)
    \/ \E delivered \in env.delivery : Notify(j, delivered)

\* One step of the task _process(i) of job j.
ProcessStep(j, i) ==
    /\ i \in Idx(j)
    /\ \/ Dispatch(j, i)
       \/ \E kind \in env.contents : CallReturn(j, i, kind)
       \/ CallFail(j, i)
       \/ LockAcquire(j, i)
       \/ \E delivered \in env.delivery : ProgressReturn(j, i, delivered)

\* The event loop runs every task that is ready, and every external call
\* (extraction, translation, ledger, messaging) returns or raises: a task
\* that can take a step takes one.
Fairness ==
    /\ \A j \in JobIds : WF_vars(TaskStep(j))
    /\ \A j \in JobIds : \A i \in 0..(NChunks - 1) : WF_vars(ProcessStep(j, i))

SpecFair == InitFair /\ [][Next]_vars /\ Fairness

\* =====================================================================
\* Properties
\* =====================================================================
HasRunning(u) == \E j \in JobIds : Running(j) /\ task[j].user = u
\* The translation of chunk i, when the backend gives one.
Translation(i) == translate_chunk(backend(ChunkText(i)))
\* The chunks whose translation call has returned.
Written(j) == {i \in Idx(j) : returned[j][i] # NotYet}
\* The stars payments and gifts have added to the balance of user u.
RECURSIVE credits_of(_, _)
credits_of(rows, u) ==
    IF rows = <<>> THEN 0
    ELSE (IF Head(rows)[1] = u THEN Head(rows)[2] ELSE 0)
         + credits_of(Tail(rows), u)

\* C1: whatever the order in which the calls complete, slot i of results
\* holds nothing before the call of chunk i returned and what that call
\* returned after (the translation of chunk i, or "" when the backend
\* answered without a text; never the text of another chunk), and the text
\* translate_markdown returns joins what the calls returned in index order.
C1_ResultOrder ==
    \A j \in JobIds :
        /\ \A i \in Idx(j) :
              /\ returned[j][i] \in {NotYet, <<>>, Translation(i)}
              /\ results[j][i] = IF returned[j][i] = NotYet THEN Empty
                                                            ELSE returned[j][i]
        /\ task[j].translated # Empty =>
              task[j].translated =
                  [k \in 1..env.chunks[j] |-> returned[j][k - 1]]

\* C1 witness: a call completed, and wrote its slot, while the call of an
\* earlier chunk was still in flight.
C1_Witness ==
    \E j \in JobIds : \E i, k \in Idx(j) :
        /\ i < k
        /\ chunk[j][i] = "call"
        /\ returned[j][k] = Translation(k)
        /\ results[j][k] = Translation(k)

\* C2: never more than MAX_CONCURRENT translation calls of a batch in flight.
C2_BoundedInFlight ==
    \A j \in JobIds : Cardinality(InFlight(j)) <= MAX_CONCURRENT

\* C2 witness: the gate is saturated while a chunk still waits for it.
C2_Witness ==
    \E j \in JobIds : /\ Cardinality(InFlight(j)) = MAX_CONCURRENT
                      /\ Queued(j) # {}

\* C3: a job one of whose stages failed (extraction, translation, output
\* assembly, delivery), or that was cancelled, has debited nothing: the
\* cost is debited only once the whole pipeline is through.
C3_CommitOnSuccess ==
    \A j \in JobIds :
        task[j].pc \in {"notify_failed", "failed", "notify_cancelled", "cancelled"}
            => debited[j] = 0 /\ spent[j] = 0

\* C4: a job cancelled, or failed by a translation call, after some chunks
\* were translated has debited nothing (no UPDATE, no 'spend' row), and its
\* requester's balance is the one from before the job, plus what the
\* requester bought or was given meanwhile.
C4_NoDebitOnPartial ==
    \A j \in JobIds :
        (/\ task[j].pc \in {"cancelled", "failed"}
         /\ task[j].exc # "none"
         /\ Written(j) # {})
            => /\ debited[j] = 0
               /\ spent[j] = 0
               /\ balance[task[j].user] =
                      InitBalance[task[j].user]
                          + credits_of(credited, task[j].user)

\* C4 witness: cancelled after two chunks were translated, a third was not,
\* the requester's balance being the initial one.
C4_Witness ==
    \E j \in JobIds : /\ task[j].pc = "cancelled"
                      /\ Cardinality(Written(j)) >= 2
                      /\ Written(j) # Idx(j)
                      /\ balance[task[j].user] = InitBalance[task[j].user]

\* C5: a requester has at most one running job.
C5_Exclusive ==
    \A u \in Users :
        Cardinality({j \in JobIds : Running(j) /\ task[j].user = u}) <= 1

\* C6: a job_id is started at most once; once started it is gone from the
\* pending table, so a later confirm of it, like a confirm of an id never
\* handed out, answers "not found".
C6_SingleUse ==
    \A j \in JobIds :
        /\ started[j] <= 1
        /\ (started[j] = 1 \/ j > next_id) =>
              /\ j \notin DOMAIN pending_jobs
              /\ confirm_reply(pending_jobs, j) = "not_found"

\* C6 witness: a job was started while another one is still pending.
C6_Witness ==
    \E j \in JobIds : started[j] = 1 /\ pending_jobs # Empty

\* C7: a job runs only for the requester recorded as its owner at intake.
C7_OwnerOnly ==
    \A j \in JobIds : task[j].pc # "none" => task[j].user = task[j].owner

\* C8: a job whose requester's cancel was acknowledged while a chunk was
\* unreported ends cancelled (granted: failed, when a translation call
\* raised first), has debited nothing, and its scratch directory is gone.
C8_CancelTerminates ==
    \A j \in cancel_seen :
        Terminal(j) =>
            /\ \/ task[j].pc = "cancelled"
               \/ task[j].pc = "failed" /\ task[j].exc = "error"
            /\ spent[j] = 0
            /\ j \notin dirs

\* C9: a requester has a flag entry exactly while one of their jobs runs.
C9_FlagIffRunning ==
    \A u \in Users : (u \in DOMAIN active_jobs) <=> HasRunning(u)

\* C10: for a requester with no running job the cancel handler (the command
\* and the button alike) answers "nothing active", and no step of it changes
\* the flag map, the pending table, a scratch directory or a balance.
C10_CancelNoOp ==
    /\ [](\A u \in Users :
            ~HasRunning(u) => cancel_reply(active_jobs, u) = "nothing_active")
    /\ [][\A u \in Users :
            (~HasRunning(u) /\ Cancel(u)) =>
                UNCHANGED <<active_jobs, pending_jobs, dirs, balance>>]_vars

\* C10 witness: a requester whose job has ended, while another requester's
\* flag entry exists.
C10_Witness ==
    \E u \in Users :
        /\ ~HasRunning(u)
        /\ \E j \in JobIds : task[j].user = u /\ Terminal(j)
        /\ active_jobs # Empty

\* C11: a confirmed job that has ended (completed, failed or cancelled, on
\* whatever path) has no scratch directory left.
C11_ScratchRemoved ==
    \A j \in JobIds : Terminal(j) => j \notin dirs

\* C12: a step of the cancel_job handler pressed by u leaves no pending job
\* owned by u and no scratch directory of such a job, and leaves the pending
\* jobs and directories of everybody else, and every flag, as they were.
C12_CancelPending ==
    [][\A u \in Users :
          CancelJob(u) =>
              LET mine == {j \in DOMAIN pending_jobs : pending_jobs[j].user_id = u}
              IN  /\ \A j \in DOMAIN pending_jobs' : pending_jobs'[j].user_id # u
                  /\ dirs' \cap mine = {}
                  /\ \A j \in (DOMAIN pending_jobs) \ mine :
                        /\ j \in DOMAIN pending_jobs'
                        /\ pending_jobs'[j] = pending_jobs[j]
                  /\ dirs' \ mine = dirs \ mine
                  /\ active_jobs' = active_jobs
                  /\ balance' = balance]_vars

\* C12 witness: one requester's offered job was cancelled (never started, no
\* longer pending, directory gone) while another requester's pending job
\* and its directory are still there.
C12_Witness ==
    \E j, k \in JobIds :
        /\ j # k
        /\ j <= next_id /\ intake[j].pc = "offered" /\ started[j] = 0
        /\ j \notin DOMAIN pending_jobs /\ j \notin dirs
        /\ k \in DOMAIN pending_jobs /\ k \in dirs

\* C13: an intake of a document that is neither of an allowed mime type nor
\* of an allowed extension, or that is larger than MAX_FILE_SIZE_MB, creates
\* no job: no job id, no scratch directory, no pending entry, no intake in
\* progress, and every balance as before.
C13_RefusedIntake ==
    [][\A u \in Users : \A f \in AllFiles :
          (/\ \/ f.mime \notin allowed_mimes /\ f.ext \notin allowed_exts
              \/ f.size > MAX_FILE_SIZE_MB * 1024 * 1024
           /\ HandleDocumentStart(u, f))
              => UNCHANGED <<pending_jobs, dirs, balance, next_id, intake,
                             active_jobs>>]_vars

\* C13 witness: a document of a wrong type was refused and nothing of a job
\* exists.
C13_Witness ==
    /\ refused = <<"bad_type">>
    /\ next_id = 0 /\ dirs = {} /\ pending_jobs = Empty
    /\ balance = InitBalance

\* C14: the intake step that compares cost and balance records a pending
\* job exactly when the requester's balance is at least the cost; an intake
\* in the deficit branch has no pending entry and shows deficit = cost -
\* balance (a positive number; 8 for 120 pages and a balance of 40, while a
\* balance of 50 is accepted); and when the handler returns from that
\* branch the scratch directory is gone and still nothing is pending.
C14_PendingIffAffordable ==
    /\ [][\A j \in JobIds :
            HandleDocumentCompare(j) =>
                LET u == intake[j].user
                    cost == calc_cost(intake[j].pages)
                IN  /\ (j \in DOMAIN pending_jobs') <=> balance[u] >= cost
                    /\ (cost = 48 /\ balance[u] = 50) =>
                            /\ j \in DOMAIN pending_jobs'
                            /\ pending_jobs'[j].cost = 48
                    /\ (cost = 48 /\ balance[u] = 40) =>
                            /\ intake'[j].pc = "reject"
                            /\ deficit(intake[j].balance, cost) = 8]_vars
    /\ [](\A j \in JobIds :
            intake[j].pc = "reject" =>
                /\ j \notin DOMAIN pending_jobs
                /\ deficit(intake[j].balance, calc_cost(intake[j].pages)) > 0)
    /\ [][\A j \in JobIds :
            HandleDocumentReject(j, "ok") =>
                j \notin dirs' /\ j \notin DOMAIN pending_jobs']_vars

\* C15: the cost recorded for a document of p pages is the least integer c
\* with 50 * c >= p * STARS_PER_50_PAGES, or 1 when that is 0; the cost
\* function never decreases from one page count to the next (hence over
\* any two), is at least 1, gives the rate itself for 50 pages and 48 for
\* 120 pages.
C15_CostFunction ==
    /\ \A j \in DOMAIN pending_jobs :
          intake[j].pc = "offer" =>
              LET p == intake[j].pages
                  c == pending_jobs[j].cost
              IN  /\ c >= 1
                  /\ 50 * c >= p * STARS_PER_50_PAGES
                  /\ c > 1 => 50 * (c - 1) < p * STARS_PER_50_PAGES
    /\ \A p \in 0..(MaxPages - 1) : calc_cost(p) <= calc_cost(p + 1)
    /\ \A p \in 0..MaxPages : calc_cost(p) >= 1
    /\ calc_cost(50) = STARS_PER_50_PAGES
    /\ calc_cost(120) = 48

\* C15 witness: a cost that had to be rounded up was recorded (3 pages are
\* 1.2 units, charged 2).
C15_Witness ==
    \E j \in DOMAIN pending_jobs :
        /\ intake[j].pc = "offer"
        /\ intake[j].pages = 3
        /\ pending_jobs[j].cost = 2

\* C16: the done values progress_callback is called with in one batch never
\* decrease and lie in 1..total; when the batch succeeded they are exactly
\* 1, 2, ..., total, the last one being total.
C16_ProgressCounter ==
    \A j \in JobIds :
        LET p == progress[j]
        IN  /\ \A k \in 1..Len(p) : p[k] >= 1 /\ p[k] <= env.chunks[j]
            /\ \A k \in 1..(Len(p) - 1) : p[k] <= p[k + 1]
            /\ task[j].translated # Empty =>
                  /\ p = [k \in 1..env.chunks[j] |-> k]
                  /\ p[Len(p)] = env.chunks[j]

\* C16 witness: a batch of NChunks chunks succeeded after NChunks calls of
\* progress_callback.
C16_Witness ==
    \E j \in JobIds :
        /\ task[j].pc = "spend"
        /\ task[j].translated # Empty
        /\ Len(progress[j]) = NChunks
        /\ progress[j][NChunks] = NChunks

\* C17: at most one call of progress_callback of a batch is in progress at
\* any time although it suspends; the values passed are 1, 2, 3, ... with
\* none missing or repeated; and there is one call per completed chunk at
\* most (and one for every chunk that got as far as its notification).
C17_AtomicNotify ==
    \A j \in JobIds :
        LET p == progress[j]
            Notified == {i \in Idx(j) : chunk[j][i] \in {"notify", "done"}}
        IN  /\ Cardinality({i \in Idx(j) : chunk[j][i] = "notify"}) <= 1
            /\ p = [k \in 1..Len(p) |-> k]
            /\ Len(p) <= Cardinality(Written(j))
            /\ Len(p) >= Cardinality(Notified)
            /\ Len(p) = done_count[j]

\* C17 witness: another chunk completed while a call of progress_callback
\* was suspended after an earlier one had returned, and waits for it.
C17_Witness ==
    \E j \in JobIds :
        /\ \E i \in Idx(j) : chunk[j][i] = "notify"
        /\ waiters[j] # <<>>
        /\ Len(progress[j]) >= 2

\* The chunks whose translation call raised (a task ended by an exception
\* with no result stored; a cancel ends a task after its result is stored).
CallFailed(j) ==
    {i \in Idx(j) : chunk[j][i] = "raised" /\ returned[j][i] = NotYet}

\* What holds of a job one of whose translation calls failed, whatever way
\* it ends: no text from translate_markdown, never billed, assembled or
\* delivered, nothing debited, and once ended its scratch directory is
\* removed.
FailedBatch(j) ==
    /\ task[j].translated = Empty
    /\ task[j].pc \notin {"spend", "spend_row", "assemble", "sending",
                          "reply", "delete", "completed"}
    /\ debited[j] = 0
    /\ spent[j] = 0
    /\ balance[task[j].user] =
           InitBalance[task[j].user] + credits_of(credited, task[j].user)
    /\ Terminal(j) => j \notin dirs

\* C18: a job one of whose translation calls failed gets no text from
\* translate_markdown, is never billed, assembled or delivered, and ends
\* failed with nothing debited and its scratch directory removed.
C18_BatchFailsAsWhole ==
    \A j \in JobIds :
        CallFailed(j) # {} =>
            /\ FailedBatch(j)
            /\ Terminal(j) => task[j].pc = "failed"

\* C18, amended: the same, the job ending failed unless the cancel
\* exception was raised in the batch before the call failed: gather has
\* then propagated the cancel, and the job ends cancelled; a job whose
\* first exception is the failed call never ends cancelled.
C18_FailedOrCancelled ==
    \A j \in JobIds :
        CallFailed(j) # {} =>
            /\ FailedBatch(j)
            /\ task[j].exc = "error" => task[j].pc # "cancelled"
            /\ Terminal(j) =>
                  \/ task[j].pc = "failed"
                  \/ task[j].pc = "cancelled" /\ task[j].exc = "cancel"

\* C18 witness: a job ended failed after the call of its last chunk raised
\* when all the others were already translated.
C18_Witness ==
    \E j \in JobIds :
        /\ task[j].pc = "failed"
        /\ CallFailed(j) = {NChunks - 1}
        /\ Written(j) = Idx(j) \ {NChunks - 1}

\* C19: once a job has ended (its completed, failed or cancelled message
\* was sent) no _process task of it starts another progress notification.
C19_ProgressStreamEnds ==
    [][\A j \in JobIds :
          Terminal(j) =>
              \A i \in Idx(j) :
                  chunk'[j][i] = "notify" => chunk[j][i] = "notify"]_vars

\* C20: a confirmed job that has ended has sent exactly one final message
\* to its requester (the result, the error text or the cancel text).
C20_OneFinalNotification ==
    \A j \in JobIds : Terminal(j) => notified[j] = 1

\* ------------------------------------------------- images and chunks
\* C21: restoring the protected text with the table protect produced
\* yields exactly the original text, for every input text.
C21_RoundTrip ==
    txt.pc = "restored" => txt.restored = txt.text

\* The image references of t from position p on, left to right, as
\* [from, to] positions.
RECURSIVE ImagesAt(_, _)
ImagesAt(t, p) ==
    IF p > Len(t) THEN <<>>
    ELSE LET r == img_match(t, p)
         IN  IF r = 0 THEN ImagesAt(t, p + 1)
             ELSE <<[from |-> p, to |-> r]>> \o ImagesAt(t, r + 1)

\* Positions of t where a placeholder token stands.
TokenPositions(t) ==
    {p \in 1..Len(t) : \E k \in 0..Len(t) : OccursAt(t, placeholder(k), p)}

\* The text between the k-th image reference of t and the next one (the
\* text before the first for k = 0, the text after the last for k = Len).
Gap(t, ims, k) ==
    SubSeq(t, IF k = 0 THEN 1 ELSE ims[k].to + 1,
              IF k = Len(ims) THEN Len(t) ELSE ims[k + 1].from - 1)

\* The gaps of t from the k-th on with placeholder k, k + 1, ... between.
RECURSIVE Replaced(_, _, _)
Replaced(t, ims, k) ==
    IF k = Len(ims) THEN Gap(t, ims, k)
    ELSE Gap(t, ims, k) \o placeholder(k) \o Replaced(t, ims, k + 1)

\* C22: after protect the protected text holds as many placeholder tokens
\* as the table has entries, and the k-th image reference from the left is
\* replaced by the placeholder of index k - 1 (0, 1, 2, ...), whose table
\* entry is the reference's original text.
C22_PlaceholdersMatchTable ==
    txt.pc = "protected" =>
        LET ims == ImagesAt(txt.text, 1)
        IN  /\ Cardinality(TokenPositions(txt.cleaned)) = Len(txt.images)
            /\ Len(txt.images) = Len(ims)
            /\ \A k \in 1..Len(ims) :
                  txt.images[k] = SubSeq(txt.text, ims[k].from, ims[k].to)
            /\ txt.cleaned = Replaced(txt.text, ims, 0)

\* The image references of t, left to right, as texts.
ImageTexts(t) ==
    LET ims == ImagesAt(t, 1)
    IN  [k \in 1..Len(ims) |-> SubSeq(t, ims[k].from, ims[k].to)]

\* C23: for a document of several image references and more than one
\* chunk, whatever the order in which the chunks' translations return
\* (every one of them with a text), the text translate_markdown returns
\* holds the original image references, each unchanged and once, in their
\* original order.
C23_ImagesSurvive ==
    (/\ txt.pc = "translated" /\ Len(txt.images) >= 2 /\ Len(txt.chunks) >= 2
     /\ \A k \in 1..Len(txt.results) : txt.results[k] # <<>>)
        => ImageTexts(txt.translated) = txt.images

\* C24: split returns only chunks that are not empty after trimming, and
\* the empty sequence for an empty or blank-only text.
C24_NoBlankChunk ==
    txt.pc = "split" =>
        /\ \A k \in 1..Len(txt.chunks) : ~is_blank(txt.chunks[k])
        /\ is_blank(txt.text) => txt.chunks = <<>>

\* A text that is not blank has been split and a blank chunk was left out.
C24_Witness ==
    /\ txt.pc = "split"
    /\ ~is_blank(txt.text)
    /\ Len(all_chunks(txt.text, txt.chunk_size)) > Len(txt.chunks)

\* The lines of chunks[k], chunks[k + 1], ... one after the other.
RECURSIVE chunk_lines(_, _)
chunk_lines(chunks, k) ==
    IF k > Len(chunks) THEN <<>>
    ELSE split_lines(chunks[k]) \o chunk_lines(chunks, k + 1)

\* The lines that are not blank, in order.
non_blank(lines) == SelectSeq(lines, LAMBDA l : ~is_blank(l))

\* C25: the lines of the returned chunks, read in chunk order, hold the
\* non-blank lines of the text in their original order: none is lost,
\* duplicated, reordered or cut.
C25_LinesKept ==
    txt.pc = "split" =>
        non_blank(chunk_lines(txt.chunks, 1)) = non_blank(split_lines(txt.text))

\* A text with a blank line next to lines that are not blank has been split
\* into several chunks.
C25_Witness ==
    /\ txt.pc = "split"
    /\ Len(txt.chunks) >= 2
    /\ Len(non_blank(split_lines(txt.text))) >= 2
    /\ Len(non_blank(split_lines(txt.text))) < Len(split_lines(txt.text))

\* C26: the returned chunks joined with one line break between
\* consecutive chunks are the text again, for every text and chunk size.
C26_Partition ==
    txt.pc = "split" => join_lines(txt.chunks) = txt.text

\* C26, amended: the text is cut at line breaks only and nothing is left
\* out before the return: the lines of the chunks as they stand before
\* line 83 are the lines of the text; and the returned chunks joined with
\* one line break are the text again exactly when none of those chunks is
\* blank or the text is empty.
C26_PartitionBeforeFilter ==
    txt.pc = "split" =>
        LET all == all_chunks(txt.text, txt.chunk_size)
        IN  /\ chunk_lines(all, 1) = split_lines(txt.text)
            /\ join_lines(txt.chunks) = txt.text
                  <=> \/ \A k \in 1..Len(all) : ~is_blank(all[k])
                      \/ txt.text = <<>>

\* A text has been split, a blank chunk was left out and the chunks
\* returned, joined with one line break, are not the text.
C26_Witness ==
    /\ txt.pc = "split"
    /\ txt.chunks # <<>>
    /\ Len(all_chunks(txt.text, txt.chunk_size)) = Len(txt.chunks) + 1
    /\ join_lines(txt.chunks) # txt.text

\* current_len after the first m lines of a chunk: line length plus one
\* each.
RECURSIVE acc_len(_, _)
acc_len(lines, m) ==
    IF m = 0 THEN 0 ELSE acc_len(lines, m - 1) + Len(lines[m]) + 1

\* C27: a heading that would take a chunk that is not empty over the limit
\* is not added to it, it starts the next chunk: in no chunk does a
\* heading after the first line take the accumulated length over
\* chunk_size.
C27_HeadingStartsChunk ==
    txt.pc = "split" =>
        \A c \in 1..Len(txt.chunks) :
            LET lines == split_lines(txt.chunks[c])
            IN  \A m \in 2..Len(lines) :
                    is_heading(lines[m]) =>
                        acc_len(lines, m) <= txt.chunk_size

\* A chunk within the limit was closed before a heading that would have
\* taken it over the limit, and the heading is the first line of the next
\* chunk.
C27_Witness ==
    /\ txt.pc = "split"
    /\ \E c \in 2..Len(txt.chunks) :
          LET prev == split_lines(txt.chunks[c - 1])
              lines == split_lines(txt.chunks[c])
          IN  /\ txt.chunks = all_chunks(txt.text, txt.chunk_size)
              /\ is_heading(lines[1])
              /\ acc_len(prev, Len(prev)) <= txt.chunk_size
              /\ acc_len(prev, Len(prev)) + Len(lines[1]) + 1 > txt.chunk_size

\* C28: a chunk is over the limit by its last line only: in every
\* returned chunk the accumulated length of the lines before the last is
\* at most chunk_size.
C28_OverByLastLine ==
    txt.pc = "split" =>
        \A c \in 1..Len(txt.chunks) :
            LET lines == split_lines(txt.chunks[c])
            IN  acc_len(lines, Len(lines) - 1) <= txt.chunk_size

\* C29: every confirmed job ends in one of the states completed, failed
\* and cancelled, and stays in the one it reached.
C29_JobTerminates ==
    /\ \A j \in JobIds : (started[j] > 0) ~> Terminal(j)
    /\ [][\A j \in JobIds : Terminal(j) => task'[j].pc = task[j].pc]_vars

\* A confirmed job that was cancelled while its chunks were translated has
\* ended as cancelled, tasks _process of it still being on their way.
C29_Witness ==
    \E j \in JobIds :
        /\ started[j] > 0
        /\ task[j].pc = "cancelled"
        /\ \E i \in Idx(j) : chunk[j][i] \in {"queued", "call"}

\* C30: in the step that removes the scratch directory of a confirmed job
\* no _process task of the job is waiting for a permit, in its translation
\* call, waiting for the lock or inside the progress callback.
C30_CleanupLast ==
    [][\A j \in JobIds :
          (j \in dirs /\ j \notin dirs' /\ started[j] > 0) =>
              \A i \in Idx(j) :
                  chunk[j][i] \notin {"queued", "call", "lockwait", "notify"}]_vars

\* ------------------------------------------------ billing and cancel
\* C31: a job debits at most once (one UPDATE, one 'spend' row at most and
\* only after the UPDATE), what it debits is the cost computed at intake
\* for it, and no step of a job credits a balance: a balance goes down by
\* the debit of a job only and up by a payment or a gift only.
C31_DebitOnce ==
    /\ [](\A j \in JobIds :
            /\ (j \in DOMAIN pending_jobs /\ intake[j].pc = "offer") =>
                   pending_jobs[j].cost = calc_cost(intake[j].pages)
            /\ task[j].pc # "none" =>
                   /\ debited[j] \in {0, task[j].cost}
                   /\ spent[j] \in {0, debited[j]})
    /\ [][/\ \A j \in JobIds :
              /\ (j \in DOMAIN pending_jobs /\ j \in DOMAIN pending_jobs') =>
                     pending_jobs'[j].cost = pending_jobs[j].cost
              /\ (j \in DOMAIN pending_jobs /\ task'[j].pc # "none") =>
                     task'[j].cost = pending_jobs[j].cost
              /\ (task[j].pc # "none" /\ j \notin DOMAIN pending_jobs) =>
                     task'[j].cost = task[j].cost
              /\ debited'[j] # debited[j] =>
                     debited[j] = 0 /\ debited'[j] = task[j].cost
              /\ spent'[j] # spent[j] =>
                     spent[j] = 0 /\ spent'[j] = task[j].cost
          /\ \A u \in Users :
              /\ balance'[u] < balance[u] =>
                     \/ \E j \in JobIds :
                            /\ task[j].user = u
                            /\ debited[j] = 0 /\ debited'[j] = task[j].cost
                            /\ balance[u] - balance'[u] = task[j].cost
                     \/ /\ credited' # credited
                        /\ UNCHANGED <<task, debited, spent>>
              /\ balance'[u] > balance[u] =>
                     /\ credited' =
                            Append(credited, <<u, balance'[u] - balance[u]>>)
                     /\ UNCHANGED <<task, debited, spent>>]_vars

\* A job was debited its cost and then failed: the debit stands.
C31_Witness ==
    \E j \in JobIds :
        /\ task[j].pc = "failed"
        /\ task[j].cost > 0
        /\ debited[j] = task[j].cost
        /\ spent[j] = task[j].cost
        /\ credited = <<>>
        /\ balance[task[j].user] = InitBalanceJobs[task[j].user] - task[j].cost

\* C32: a progress message that could not be delivered is swallowed: the
\* step in which on_progress ends after a failed edit_text leaves the done
\* counter, the task (no exception for gather, no cancel), the results, the
\* flag and the ledger as they are and ends the _process task normally,
\* exactly as the step of a delivered message does.
C32_ProgressFailureSwallowed ==
    [][\A j \in JobIds : \A i \in Idx(j) :
          ProgressReturn(j, i, FALSE) =>
              /\ chunk' = [chunk EXCEPT ![j][i] = "done"]
              /\ UNCHANGED <<done_count, task, results, returned, waiters,
                             progress, active_jobs, ledger, dirs,
                             notified>>]_vars

\* A job one of whose progress messages was lost counted every chunk,
\* completed and was debited its cost.
C32_Witness ==
    \E j \in lost :
        /\ task[j].pc = "completed"
        /\ done_count[j] = NChunks
        /\ progress[j] = [k \in 1..NChunks |-> k]
        /\ spent[j] = task[j].cost

\* C33: a job whose requester's cancel was acknowledged (the flag of the
\* requester is true while the job is in translate_markdown) does not go
\* on to the debit, the only way to completed.
C33_AcknowledgedCancelWins ==
    [][\A j \in JobIds :
          (/\ task[j].pc = "translating"
           /\ task[j].user \in DOMAIN active_jobs
           /\ active_jobs[task[j].user]) =>
              task'[j].pc # "spend"]_vars

\* C34: every debit is applied to a balance of at least the cost debited,
\* so no balance becomes negative.
C34_DebitCovered ==
    [][\A j \in JobIds :
          debited'[j] # debited[j] =>
              /\ balance[task[j].user] >= task[j].cost
              /\ balance'[task[j].user] >= 0]_vars

\* C35: once a _process task of a batch has raised (the cancel seen by
\* on_progress, or a translation call that failed), no chunk still waiting
\* for a permit has its translation call sent.
C35_NoDispatchAfterRaise ==
    [][\A j \in JobIds :
          task[j].exc # "none" =>
              \A i \in Idx(j) :
                  chunk[j][i] = "queued" => chunk'[j][i] # "call"]_vars

\* C36: confirm and the cancel of pending jobs never both take a job: a
\* job is started only by a step that finds its pending entry and removes
\* it, an entry is written by the intake of its job only and so never comes
\* back, a cancel_job step removes the entry of every job whose directory
\* it removes, and it removes no directory of a started job.
C36_ConfirmOrCancel ==
    [][/\ \A j \in JobIds :
           /\ (task[j].pc = "none" /\ task'[j].pc # "none") =>
                  j \in DOMAIN pending_jobs /\ j \notin DOMAIN pending_jobs'
           /\ (j \notin DOMAIN pending_jobs /\ j \in DOMAIN pending_jobs') =>
                  /\ intake[j].pc = "compare" /\ intake'[j].pc = "offer"
                  /\ task[j].pc = "none"
           /\ intake'[j].pc = "compare" => intake[j].pc \in {"analysing", "compare"}
       /\ \A u \in Users :
           CancelJob(u) =>
               \A j \in JobIds :
                   /\ task[j].pc # "none" => (j \in dirs' <=> j \in dirs)
                   /\ j \in (dirs \ dirs') =>
                          j \notin DOMAIN pending_jobs' /\ task'[j].pc = "none"
      ]_vars

\* One job was taken by confirm and runs with its directory, the other one
\* was taken by the cancel of pending jobs: no entry, no directory, never
\* started.
C36_Witness ==
    \E j, k \in JobIds :
        /\ Running(j) /\ j \in dirs
        /\ k # j
        /\ intake[k].pc = "offered"
        /\ k \notin DOMAIN pending_jobs
        /\ k \notin dirs
        /\ task[k].pc = "none"

\* C37: a cancel by one requester touches nobody else's flag and no job,
\* and a job takes a cancel only from the flag of the requester who owns
\* it.
C37_CancelIsolated ==
    /\ [][\A a \in Users :
             Cancel(a) =>
                 /\ \A b \in Users \ {a} :
                       /\ (b \in DOMAIN active_jobs') <=> (b \in DOMAIN active_jobs)
                       /\ b \in DOMAIN active_jobs =>
                              active_jobs'[b] = active_jobs[b]
                 /\ UNCHANGED <<task, progress, done_count, ledger>>]_vars
    /\ [][\A j \in JobIds :
             (task[j].exc = "none" /\ task'[j].exc = "cancel") =>
                 /\ task[j].owner \in DOMAIN active_jobs
                 /\ active_jobs[task[j].owner]]_vars

\* C38: every job directory that exists belongs to an intake that has not
\* returned yet, to a job in the pending table, or to a running job.
C38_NoOrphanDirectory ==
    \A j \in dirs :
        \/ intake[j].pc \in {"analysing", "compare", "reject", "offer"}
        \/ j \in DOMAIN pending_jobs
        \/ Running(j)

=========================================================================
